---------------------------- MODULE Spec2Model ----------------------------
(***************************************************************************)
(* A model of ied, a generator of decompression bombs.                     *)
(*                                                                         *)
(* A Payload is a list of segments (Blocks and Bombs) with an optional     *)
(* child Payload.  The model keeps a chain of payloads as the sequence     *)
(* `stack': stack[1] is the root (it has no child) and stack[L-1] is the   *)
(* child of stack[L]; the last element is the top payload, the one the     *)
(* caller fills and writes.                                                *)
(*                                                                         *)
(* Segment indices captured by closures (start_c, end) keep the 0-based    *)
(* values of the source; sequences are 1-based, so data[i] of the source   *)
(* is data[i+1] here.                                                      *)
(*                                                                         *)
(* Spec is a caller that wraps, fills and writes a payload; SpecBombFill   *)
(* is a caller that ends by filling one block, one bomb, or one after the  *)
(* other, on their own (Block::fill, Bomb::fill).  SpecAdler32             *)
(* and SpecCrc32 are a caller that asks a payload for a checksum;          *)
(* SpecAdlerEngine and SpecCrc32Engine are a caller of the checksum        *)
(* engines of src/src/payload/.                                            *)
(***************************************************************************)
EXTENDS Integers, Sequences, FiniteSets, TLC

VARIABLES
    stack,    \* the chain of payloads: each a sequence of segments
    status,   \* "ok", or "panic" once an operation has aborted the process
    hist,     \* the operations called so far, with their inputs
    log,      \* what the last operation did, in order (closure invocations)
    out,      \* the bytes the sink has accepted
    ret,      \* the value the last operation returned
    eng,      \* the state of a checksum engine
    checks    \* TRUE when the build traps integer overflow (debug profile)

vars == <<stack, status, hist, log, out, ret, eng, checks>>

---------------------------------------------------------------------------
(* Bounds of the model *)

MaxSegs == 3
MaxDepth == 2
MaxSize == 1
MaxFills == 2
BigLen == 65536
MaxBomb == 2000000000

---------------------------------------------------------------------------
(* Small helpers *)

Min(a, b) == IF a < b THEN a ELSE b

RECURSIVE BitOr(_, _)
BitOr(a, b) ==
    IF a = 0 THEN b
    ELSE IF b = 0 THEN a
    ELSE (IF a % 2 = 1 \/ b % 2 = 1 THEN 1 ELSE 0) + 2 * BitOr(a \div 2, b \div 2)

\* `x as u8'
AsU8(x) == x % 256

---------------------------------------------------------------------------
(* Segments: src/src/payload.rs *)

\* Block::new: a Known block; len is the length of the data
Block_new(data) ==
    [kind |-> "Block", known |-> TRUE, data |-> data, len |-> Len(data),
     start_c |-> 0, data_len |-> 0, has_rep |-> FALSE, is_last |-> FALSE]

\* A Block whose data is Unfilled(gen_block), with the values the closure
\* captured
Block_unfilled(payload_len, start_c, data_len, has_rep, is_last) ==
    [kind |-> "Block", known |-> FALSE, data |-> <<>>, len |-> payload_len,
     start_c |-> start_c, data_len |-> data_len, has_rep |-> has_rep,
     is_last |-> is_last]

\* Bomb::new: size zero and a fill closure that does nothing
Bomb_new(data) ==
    [kind |-> "Bomb", data |-> data, size |-> 0, prop |-> FALSE, end |-> 0]

\* The Bomb deflate_raw creates: its fill closure captured `end'
Bomb_deflate(end) ==
    [kind |-> "Bomb", data |-> <<85>>, size |-> 0, prop |-> TRUE, end |-> end]

IsBlock(s) == s.kind = "Block"
IsBomb(s) == s.kind = "Bomb"

---------------------------------------------------------------------------
(* deflate_raw: src/src/payload.rs *)

\* The maximum length of an uncompressed DEFLATE block (0xffff)
MaxStored == 65535

\* The header of the Bomb block that follows a group
BombHeader == <<236, 192, 129, 0, 0, 0, 0, 0, 144, 255, 107, 35, 84>>

\* "Find the bounds of this Block": the first index from `end' on that holds
\* a Bomb, or data.len() when there is none
RECURSIVE FindEnd(_, _)
FindEnd(data, end) ==
    IF end >= Len(data) THEN end
    ELSE IF IsBomb(data[end + 1]) THEN end
    ELSE FindEnd(data, end + 1)

\* The length a segment contributes to data_len: the len field of a Block
\* (known before the Block is filled), the pattern length of a Bomb
SegLen(seg) == IF IsBlock(seg) THEN seg.len ELSE Len(seg.data)

\* for i in start..=end { if i >= payload.data.len() { break; } ... }
RECURSIVE SumLen(_, _, _)
SumLen(data, i, end) ==
    IF i > end \/ i >= Len(data) THEN 0
    ELSE SegLen(data[i + 1]) + SumLen(data, i + 1, end)

NumBlocks(data_len) == (data_len + MaxStored - 1) \div MaxStored

PayloadLen(data_len, has_rep) ==
    NumBlocks(data_len) * 5 + data_len + (IF has_rep THEN 13 ELSE 0)

RECURSIVE DeflateGroups(_, _)

\* deflate_raw with a closure that captures the start of the group instead
\* of its end
DeflateGroups_Start(data, start) ==
    IF start >= Len(data) THEN <<>>
    ELSE LET end == FindEnd(data, start)
             has_rep == end < Len(data)
             is_last == end + 1 >= Len(data)
             data_len == SumLen(data, start, end)
             block == Block_unfilled(PayloadLen(data_len, has_rep), start,
                                     data_len, has_rep, is_last)
         IN  <<block>> \o (IF has_rep THEN <<Bomb_deflate(start)>> ELSE <<>>)
                 \o DeflateGroups(data, end + 1)

\* The segments pushed for the group that starts at `start', then those of
\* the following groups
DeflateGroups(data, start) ==
    IF start >= Len(data) THEN <<>>
    ELSE LET end == FindEnd(data, start)
             has_rep == end < Len(data)
             is_last == end + 1 >= Len(data)
             data_len == SumLen(data, start, end)
             block == Block_unfilled(PayloadLen(data_len, has_rep), start,
                                     data_len, has_rep, is_last)
         IN  <<block>> \o (IF has_rep THEN <<Bomb_deflate(end)>> ELSE <<>>)
                 \o DeflateGroups(data, end + 1)

\* deflate_raw(payload, output): ok is FALSE when the call panics (the
\* final payload.data[payload.data.len() - 1] of an empty payload)
deflate_raw(data) ==
    IF Len(data) = 0 THEN [ok |-> FALSE, output |-> <<>>]
    ELSE [ok |-> TRUE,
          output |-> DeflateGroups(data, 0)
                       \o (IF IsBomb(data[Len(data)])
                           THEN <<Block_new(<<0>>)>> ELSE <<>>)]

---------------------------------------------------------------------------
(* gen_block, the resolver of a wrapper Block: src/src/payload.rs *)

TakeFail == [ok |-> FALSE, bytes |-> <<>>, idx |-> 0, pos |-> 0]

\* The inner `for _i in this_start..this_end' loop: r bytes read one after
\* the other from the child's segments, starting at byte child_pos of
\* segment child_idx.  The loop indexes child.data[child_idx] and then
\* data[child_pos] for every byte, so it panics on an index past the last
\* segment, on an Unfilled Block, and on a segment with no byte at child_pos
\* (an empty Block).  The bytes of one segment are taken together here.
RECURSIVE Take(_, _, _, _)
Take(child, child_idx, child_pos, r) ==
    IF r = 0
    THEN [ok |-> TRUE, bytes |-> <<>>, idx |-> child_idx, pos |-> child_pos]
    ELSE IF child_idx >= Len(child) THEN TakeFail
    ELSE LET seg == child[child_idx + 1]
         IN  IF IsBlock(seg) /\ ~seg.known THEN TakeFail
             ELSE IF child_pos >= Len(seg.data) THEN TakeFail
             ELSE IF r < Len(seg.data) - child_pos
             THEN [ok |-> TRUE,
                   bytes |-> SubSeq(seg.data, child_pos + 1, child_pos + r),
                   idx |-> child_idx, pos |-> child_pos + r]
             ELSE LET rest == Take(child, child_idx + 1, 0,
                                   r - (Len(seg.data) - child_pos))
                  IN  [ok |-> rest.ok,
                       bytes |-> SubSeq(seg.data, child_pos + 1, Len(seg.data))
                                   \o rest.bytes,
                       idx |-> rest.idx, pos |-> rest.pos]

\* The four bytes LEN, NLEN of an uncompressed block of this_len bytes:
\* this_len & 0xff, this_len >> 8, !this_len & 0xff, !this_len >> 8, each
\* `as u8'
LenBytes(this_len) ==
    <<AsU8(this_len), AsU8(this_len \div 256),
      255 - AsU8(this_len), 255 - AsU8(this_len \div 256)>>

\* The `while this_start < data_len' loop.  acc carries ret, last_block,
\* last_bit, child_idx, child_pos and whether the closure is still running.
RECURSIVE Chunks(_, _, _, _)
Chunks(b, child, this_start, acc) ==
    IF ~acc.ok \/ this_start >= b.data_len THEN acc
    ELSE LET this_end == Min(this_start + MaxStored, b.data_len)
             this_len == this_end - this_start
             starts == b.start_c = 0 \/ this_start # 0
             t == Take(child, acc.idx, acc.pos, this_len)
         IN  IF ~t.ok THEN [acc EXCEPT !.ok = FALSE]
             ELSE Chunks(b, child, this_end,
                    [ok |-> TRUE,
                     ret |-> acc.ret \o (IF starts THEN <<0>> ELSE <<>>)
                               \o LenBytes(this_len) \o t.bytes,
                     last_block |-> IF starts THEN Len(acc.ret)
                                    ELSE acc.last_block,
                     last_bit |-> IF starts THEN 1 ELSE acc.last_bit,
                     idx |-> t.idx, pos |-> t.pos])

\* gen_block(child_op) for the Block b; has_child is child_op.is_some().
\* ok is FALSE when the closure panics.
gen_block(b, has_child, child) ==
    IF ~has_child THEN [ok |-> FALSE, ret |-> <<>>]
    ELSE LET first == [ok |-> TRUE,
                       ret |-> IF b.start_c # 0 THEN <<2>> ELSE <<>>,
                       last_block |-> 0,
                       last_bit |-> IF b.start_c # 0 THEN 32 ELSE 0,
                       idx |-> b.start_c, pos |-> 0]
             a == Chunks(b, child, 0, first)
             ret1 == IF b.has_rep THEN a.ret \o BombHeader ELSE a.ret
             last_block == IF b.has_rep THEN Len(a.ret) ELSE a.last_block
         IN  IF ~a.ok THEN [ok |-> FALSE, ret |-> <<>>]
             ELSE IF ~b.is_last THEN [ok |-> TRUE, ret |-> ret1]
             ELSE IF last_block >= Len(ret1) THEN [ok |-> FALSE, ret |-> <<>>]
             ELSE [ok |-> TRUE,
                   ret |-> [ret1 EXCEPT ![last_block + 1] =
                                BitOr(ret1[last_block + 1], a.last_bit)]]

---------------------------------------------------------------------------
(* Filling: src/src/payload.rs.  The operations work on a record m:        *)
(* m.st is the chain of payloads, m.log the closure invocations so far,    *)
(* m.ok is FALSE once something has panicked.                              *)

Panicked(m) == [m EXCEPT !.ok = FALSE]

\* let child_size = size * 1032u16 + 1290u16 (BigUint arithmetic)
ChildSize(size) == size * 1032 + 1290

RECURSIVE Bomb_fill(_, _, _, _)
RECURSIVE DeflateFill(_, _, _, _)

\* DeflateFill without the else branch: a child that has no child of its
\* own is not filled
DeflateFill_NoElse(m, L, end, size) ==
    IF L = 1 THEN Panicked(m)
    ELSE IF end >= Len(m.st[L - 1]) THEN Panicked(m)
    ELSE IF IsBomb(m.st[L - 1][end + 1]) /\ L - 1 > 1
    THEN Bomb_fill(m, L - 1, end + 1, ChildSize(size))
    ELSE m

\* The fill closure of a Bomb made by deflate_raw, run for a Bomb of layer L
\* whose closure captured `end': it fills child.data[end] with child_size,
\* handing it the grandchild
DeflateFill(m, L, end, size) ==
    IF L = 1 THEN Panicked(m)
    ELSE IF end >= Len(m.st[L - 1]) THEN Panicked(m)
    ELSE IF IsBomb(m.st[L - 1][end + 1])
    THEN Bomb_fill(m, L - 1, end + 1, ChildSize(size))
    ELSE m

\* Bomb::fill setting the size of every bomb of its layer
Bomb_fill_Layer(m, L, i, size) ==
    LET b == m.st[L][i]
        m1 == IF b.prop THEN DeflateFill(m, L, b.end, size) ELSE m
    IN  IF ~m1.ok THEN m1
        ELSE [m1 EXCEPT !.st[L] = [j \in DOMAIN @ |->
                                      IF IsBomb(@[j])
                                      THEN [@[j] EXCEPT !.size = size]
                                      ELSE @[j]],
                        !.log = Append(@, <<"bomb", L, i, size>>)]

\* Bomb::fill adding to the size instead of setting it
Bomb_fill_Add(m, L, i, size) ==
    LET b == m.st[L][i]
        m1 == IF b.prop THEN DeflateFill(m, L, b.end, size) ELSE m
    IN  IF ~m1.ok THEN m1
        ELSE [m1 EXCEPT !.st[L][i].size = @ + size,
                        !.log = Append(@, <<"bomb", L, i, size>>)]

\* Bomb::fill for segment i of layer L: (self.fill)(child, &size) and then
\* self.size = size
Bomb_fill(m, L, i, size) ==
    LET b == m.st[L][i]
        m1 == IF b.prop THEN DeflateFill(m, L, b.end, size) ELSE m
    IN  IF ~m1.ok THEN m1
        ELSE [m1 EXCEPT !.st[L][i].size = size,
                        !.log = Append(@, <<"bomb", L, i, size>>)]

\* Block::fill calling the resolver of a block whatever its state
Block_fill_Again(m, L, i) ==
    LET b == m.st[L][i]
        r == gen_block(b, L > 1, IF L > 1 THEN m.st[L - 1] ELSE <<>>)
    IN  IF ~r.ok
        THEN [m EXCEPT !.ok = FALSE, !.log = Append(@, <<"resolve", L, i>>)]
        ELSE [m EXCEPT !.st[L][i].known = TRUE,
                       !.st[L][i].data = r.ret,
                       !.log = Append(@, <<"resolve", L, i>>)]

\* Block::fill for segment i of layer L: an Unfilled block becomes
\* Known(fill(child)); a Known block is left alone
Block_fill(m, L, i) ==
    LET b == m.st[L][i]
        r == gen_block(b, L > 1, IF L > 1 THEN m.st[L - 1] ELSE <<>>)
    IN  IF b.known THEN m
        ELSE IF ~r.ok
        THEN [m EXCEPT !.ok = FALSE, !.log = Append(@, <<"resolve", L, i>>)]
        ELSE [m EXCEPT !.st[L][i].known = TRUE,
                       !.st[L][i].data = r.ret,
                       !.log = Append(@, <<"resolve", L, i>>)]

\* The loop of fill_preset over the segments of layer L, from segment i on
RECURSIVE FillBlocks(_, _, _)
FillBlocks(m, L, i) ==
    IF ~m.ok \/ i > Len(m.st[L]) THEN m
    ELSE FillBlocks(IF IsBlock(m.st[L][i]) THEN Block_fill(m, L, i) ELSE m,
                    L, i + 1)

RECURSIVE fill_preset(_, _)

\* fill_preset resolving this layer's blocks before it descends to the
\* child
fill_preset_ParentFirst(m, L) ==
    LET m1 == FillBlocks(m, L, 1)
    IN  IF L > 1 /\ m1.ok THEN fill_preset(m1, L - 1) ELSE m1

\* Payload::fill_preset on layer L: the child first, then this layer's
\* blocks
fill_preset(m, L) ==
    LET m1 == IF L > 1 THEN fill_preset(m, L - 1) ELSE m
    IN  FillBlocks(m1, L, 1)

RECURSIVE FillBombs(_, _, _, _)

\* The loop of fill passing over a bomb whose size is already set
FillBombs_Keep(m, L, i, bomb_size) ==
    IF ~m.ok \/ i > Len(m.st[L]) THEN m
    ELSE FillBombs(IF IsBomb(m.st[L][i]) /\ m.st[L][i].size = 0
                   THEN Bomb_fill(m, L, i, bomb_size)
                   ELSE m,
                   L, i + 1, bomb_size)

\* The loop of Payload::fill over the segments of layer L, from segment i on
FillBombs(m, L, i, bomb_size) ==
    IF ~m.ok \/ i > Len(m.st[L]) THEN m
    ELSE FillBombs(IF IsBomb(m.st[L][i]) THEN Bomb_fill(m, L, i, bomb_size)
                   ELSE m,
                   L, i + 1, bomb_size)

\* Payload::fill(bomb_size) on layer L
Payload_fill(m, L, bomb_size) ==
    LET m1 == FillBombs(m, L, 1, bomb_size)
    IN  IF ~m1.ok THEN m1 ELSE fill_preset(m1, L)

---------------------------------------------------------------------------
(* Writing: src/src/payload.rs.  The sink is an io::Write that accepts     *)
(* `cap' bytes in all (any number when cap is negative) and takes less     *)
(* than it is offered after that.                                          *)

\* The Bomb loop of write without idx = (idx + 1) % b.data.len()
BombBytes_Stuck(data, n) == [i \in 1..n |-> data[1]]

\* The bytes a Bomb stands for: data[idx] with idx = 0, 1, ... modulo
\* data.len(), for i in [0, n)
BombBytes(data, n) == [i \in 1..n |-> data[((i - 1) % Len(data)) + 1]]

Room(cap, w) == IF cap < 0 THEN w ELSE Min(w, cap)

RECURSIVE WriteSegs(_, _, _, _)

\* The loop of write passing over a block that is not Known
WriteSegs_Skip(data, i, cap, acc) ==
    IF ~acc.ok \/ i > Len(data) THEN acc
    ELSE LET seg == data[i]
             left == IF cap < 0 THEN -1 ELSE cap - Len(acc.out)
         IN  IF IsBlock(seg)
             THEN IF ~seg.known THEN WriteSegs(data, i + 1, cap, acc)
                  ELSE LET s == Room(left, Len(seg.data))
                       IN  WriteSegs(data, i + 1, cap,
                             [ok |-> s >= Len(seg.data),
                              out |-> acc.out \o SubSeq(seg.data, 1, s),
                              size |-> acc.size + s])
             ELSE LET s == Room(left, seg.size)
                  IN  WriteSegs(data, i + 1, cap,
                        [ok |-> s >= seg.size,
                         out |-> acc.out \o BombBytes(seg.data, s),
                         size |-> acc.size + s])

\* The loop of Payload::write from segment i on; acc.out is what the sink
\* has accepted, acc.size the running total
WriteSegs(data, i, cap, acc) ==
    IF ~acc.ok \/ i > Len(data) THEN acc
    ELSE LET seg == data[i]
             left == IF cap < 0 THEN -1 ELSE cap - Len(acc.out)
         IN  IF IsBlock(seg)
             THEN IF ~seg.known THEN [acc EXCEPT !.ok = FALSE]
                  ELSE LET s == Room(left, Len(seg.data))
                       IN  WriteSegs(data, i + 1, cap,
                             [ok |-> s >= Len(seg.data),
                              out |-> acc.out \o SubSeq(seg.data, 1, s),
                              size |-> acc.size + s])
             ELSE LET s == Room(left, seg.size)
                  IN  WriteSegs(data, i + 1, cap,
                        [ok |-> s >= seg.size,
                         out |-> acc.out \o BombBytes(seg.data, s),
                         size |-> acc.size + s])

\* Payload::write(output): ok is FALSE when the call panics
Payload_write(data, cap) ==
    WriteSegs(data, 1, cap, [ok |-> TRUE, out |-> <<>>, size |-> 0])

---------------------------------------------------------------------------
(* Machine integers.  A u32 or u64 value is a sequence of 4 or 8 bytes,    *)
(* least significant first, so that products and wrap-around are exact.    *)
(* Each operation returns the wrapped value v and whether the exact result *)
(* left the type's range (ovf): a build with overflow checks panics there, *)
(* a build without them goes on with v.                                    *)

RECURSIVE ToLimbs(_, _)
ToLimbs(n, w) == IF w = 0 THEN <<>> ELSE <<n % 256>> \o ToLimbs(n \div 256, w - 1)

U32(n) == ToLimbs(n, 4)
U64(n) == ToLimbs(n, 8)

RECURSIVE AddLimbs(_, _, _, _)
AddLimbs(x, y, i, carry) ==
    IF i > Len(x) THEN [v |-> <<>>, ovf |-> carry # 0]
    ELSE LET t == x[i] + y[i] + carry
             r == AddLimbs(x, y, i + 1, t \div 256)
         IN  [v |-> <<t % 256>> \o r.v, ovf |-> r.ovf]

\* x + y
Add(x, y) == AddLimbs(x, y, 1, 0)

RECURSIVE SubLimbs(_, _, _, _)
SubLimbs(x, y, i, borrow) ==
    IF i > Len(x) THEN [v |-> <<>>, ovf |-> borrow # 0]
    ELSE LET t == x[i] - y[i] - borrow
             r == SubLimbs(x, y, i + 1, IF t < 0 THEN 1 ELSE 0)
         IN  [v |-> <<(t + 256) % 256>> \o r.v, ovf |-> r.ovf]

\* x - y
Sub(x, y) == SubLimbs(x, y, 1, 0)

\* The sum of the byte products x[i] * y[k + 1 - i] of column k, i from i on
RECURSIVE Column(_, _, _, _)
Column(x, y, k, i) ==
    IF i > Len(x) \/ i > k THEN 0
    ELSE (IF k + 1 - i <= Len(y) THEN x[i] * y[k + 1 - i] ELSE 0)
         + Column(x, y, k, i + 1)

RECURSIVE MulLimbs(_, _, _, _)
MulLimbs(x, y, k, carry) ==
    IF k > 2 * Len(x) THEN <<>>
    ELSE LET t == Column(x, y, k, 1) + carry
         IN  <<t % 256>> \o MulLimbs(x, y, k + 1, t \div 256)

\* x * y
Mul(x, y) ==
    LET full == MulLimbs(x, y, 1, 0)
    IN  [v |-> SubSeq(full, 1, Len(x)),
         ovf |-> \E k \in Len(x) + 1 .. Len(full) : full[k] # 0]

\* x % 65521, as a number
RECURSIVE ModFrom(_, _, _)
ModFrom(x, i, r) ==
    IF i = 0 THEN r ELSE ModFrom(x, i - 1, (r * 256 + x[i]) % 65521)

Mod65521(x) == ModFrom(x, Len(x), 0)

\* An ok value, or a panic
Done(v) == [ok |-> TRUE, v |-> v]
Abort == [ok |-> FALSE, v |-> <<>>]

---------------------------------------------------------------------------
(* Payload::adler32: src/src/payload.rs *)

\* s0 += byte; s0 %= 65521; s1 += s0; s1 %= 65521, for the bytes of data
\* from index i on; s is <<s0, s1>>
RECURSIVE AdlerBytes(_, _, _, _)
AdlerBytes(s, data, i, n) ==
    IF i > n THEN s
    ELSE LET s0 == (s[1] + data[i]) % 65521
         IN  AdlerBytes(<<s0, (s[2] + s0) % 65521>>, data, i + 1, n)

\* The Bomb arm of the loop of adler32, s being <<s0, s1>>: ok is FALSE
\* when an operation overflows u64 in a build that checks (trap)
AdlerBomb(s, b, trap) ==
    LET t == AdlerBytes(<<0, 0>>, b.data, 1, Len(b.data))
        len == U64(Len(b.data))
        tri == U64(t[2])
        rect == Mul(U64(t[1]), len)
        full_blocks == U64((b.size \div Len(b.data)) % 65521)
        extra_bytes == b.size % Len(b.data)
        fbm1 == Sub(full_blocks, U64(1))
        nr1 == Mul(full_blocks, fbm1.v)
        nr2 == Mul(nr1.v, U64(32761))
        num_rects == U64(Mod65521(nr2.v))
        a1 == Mul(U64(s[1]), full_blocks)
        a2 == Mul(a1.v, len)
        s1a == Add(U64(s[2]), a2.v)
        b1 == Mul(U64(t[1]), full_blocks)
        s0a == Add(U64(s[1]), b1.v)
        c1 == Mul(tri, full_blocks)
        c2 == Mul(rect.v, num_rects)
        c3 == Add(c1.v, c2.v)
        s1b == Add(s1a.v, c3.v)
        overflow == \/ rect.ovf \/ fbm1.ovf \/ nr1.ovf \/ nr2.ovf \/ a1.ovf
                    \/ a2.ovf \/ s1a.ovf \/ b1.ovf \/ s0a.ovf \/ c1.ovf
                    \/ c2.ovf \/ c3.ovf \/ s1b.ovf
    IN  IF trap /\ overflow THEN Abort
        ELSE Done(AdlerBytes(<<Mod65521(s0a.v), Mod65521(s1b.v)>>, b.data, 1,
                             extra_bytes))

RECURSIVE AdlerSegs(_, _, _, _)
AdlerSegs(s, data, i, trap) ==
    IF i > Len(data) THEN Done(s)
    ELSE IF IsBlock(data[i])
    THEN IF ~data[i].known THEN Abort
         ELSE AdlerSegs(AdlerBytes(s, data[i].data, 1, Len(data[i].data)),
                        data, i + 1, trap)
    ELSE LET r == AdlerBomb(s, data[i], trap)
         IN  IF ~r.ok THEN Abort ELSE AdlerSegs(r.v, data, i + 1, trap)

\* Payload::adler32(): the four bytes returned, or a panic
Payload_adler32(data, trap) ==
    LET r == AdlerSegs(<<1, 0>>, data, 1, trap)
    IN  IF ~r.ok THEN Abort
        ELSE Done(<<AsU8(r.v[2] \div 256), r.v[2] % 256,
                    AsU8(r.v[1] \div 256), r.v[1] % 256>>)

---------------------------------------------------------------------------
(* Bit vectors.  A u32 or u64 value used bitwise is the set of the         *)
(* positions of its 1 bits: & is \cap, | is \cup.                          *)

Xor(a, b) == (a \ b) \cup (b \ a)
Shr(a, k) == {x - k : x \in {y \in a : y >= k}}
\* a << k on a u64: the bits shifted past bit 63 are lost
Shl(a, k) == {x + k : x \in {y \in a : y + k <= 63}}
\* the bits of a byte
BitsOf(byte) == {x \in 0..7 : (byte \div 2^x) % 2 = 1}
\* the byte made of bits lo .. lo + 7 of a
ByteAt(a, lo) ==
    LET bit(x) == IF lo + x \in a THEN 2^x ELSE 0
    IN  bit(0) + bit(1) + bit(2) + bit(3) + bit(4) + bit(5) + bit(6) + bit(7)

\* a + b on a u64, by carries; hamming's sums never reach 2^64
RECURSIVE AddBits(_, _)
AddBits(a, b) == IF b = {} THEN a ELSE AddBits(Xor(a, b), Shl(a \cap b, 1))

\* 0xedb88320
Poly == {5, 8, 9, 15, 19, 20, 21, 23, 24, 26, 27, 29, 30, 31}

\* fn apply(crc, byte) of Payload::crc32, and Crc32Engine::apply1
RECURSIVE CrcShift(_, _)
CrcShift(v, n) ==
    IF n = 0 THEN v
    ELSE CrcShift(IF 0 \in v THEN Xor(Shr(v, 1), Poly) ELSE Shr(v, 1), n - 1)

Crc_apply(crc, byte) == CrcShift(Xor(crc, BitsOf(byte)), 8)

\* !crc as the four bytes, most significant first
CrcBytes(crc) ==
    LET c == (0..31) \ crc
    IN  <<ByteAt(c, 24), ByteAt(c, 16), ByteAt(c, 8), ByteAt(c, 0)>>

---------------------------------------------------------------------------
(* CrcMatrix: the private one of src/src/payload.rs, which Payload::crc32  *)
(* uses, and the one of src/src/payload/matrix.rs, which Crc32Engine uses. *)
(* The two differ in one function: the first reduces a product of a row    *)
(* and a column with xor_each_bit, the second with hamming.  A matrix is   *)
(* its 33 rows, items[0] .. items[32].                                     *)

\* payload.rs: the xor of bits 0 .. 32 of n
xor_each_bit(n) == IF Cardinality(n \cap 0..32) % 2 = 1 THEN {0} ELSE {}

\* n & 0x5555.., 0x3333.., 0x0f0f.., .. : the low half of each field of 2k
\* bits; n & 0xaaaa.., 0xcccc.., 0xf0f0.., .. : the high half
MaskLo(n, k) == {x \in n : (x \div k) % 2 = 0}
MaskHi(n, k) == {x \in n : (x \div k) % 2 = 1}

\* matrix.rs: every step adds the high halves of the step before to the low
\* halves of n itself, and n6 is returned as it is
hamming(n) ==
    LET n1 == AddBits(Shr(MaskHi(n, 1), 1), MaskLo(n, 1))
        n2 == AddBits(Shr(MaskHi(n1, 2), 2), MaskLo(n, 2))
        n3 == AddBits(Shr(MaskHi(n2, 4), 4), MaskLo(n, 4))
        n4 == AddBits(Shr(MaskHi(n3, 8), 8), MaskLo(n, 8))
        n5 == AddBits(Shr(MaskHi(n4, 16), 16), MaskLo(n, 16))
        n6 == AddBits(Shr(MaskHi(n5, 32), 32), MaskLo(n, 32))
    IN  n6

\* The reduction the matrix of file f uses
Reduce(f, n) == IF f = "payload" THEN xor_each_bit(n) ELSE hamming(n)

\* The rows as an array: an explicit table rather than a rule
Array(rows) == rows @@ <<>>

\* [u64; 33].  Where a loop hands a matrix on, this test comes first, so
\* that the matrix is computed before the next step starts
IsMatrix(items) == DOMAIN items = 0..32

CrcMatrix_new == Array([i \in 0..32 |-> {32 - i}])

\* matr is the list of the columns of the right factor
CrcMatrix_multiply(f, items, matr) ==
    Array([i \in 0..32 |->
        UNION {Shl(Reduce(f, items[i] \cap matr[j]), 32 - j) : j \in 0..32}])

\* The columns of the single-bit transition matrices
Push0Cols ==
    Array([j \in 0..32 |->
        IF j = 0 THEN {32} ELSE IF j = 32 THEN Poly ELSE {31 - j}])
Push1Cols == [Push0Cols EXCEPT ![0] = {32} \cup Poly]

CrcMatrix_push_0(f, items) == CrcMatrix_multiply(f, items, Push0Cols)
CrcMatrix_push_1(f, items) == CrcMatrix_multiply(f, items, Push1Cols)

CrcMatrix_transpose(items) ==
    Array([j \in 0..32 |-> {32 - i : i \in {r \in 0..32 : 32 - j \in items[r]}}])

CrcMatrix_square(f, items) ==
    CrcMatrix_multiply(f, items, CrcMatrix_transpose(items))

RECURSIVE CrcMatrix_exponentiate_r(_, _, _, _)
CrcMatrix_exponentiate_r(f, items, power, reference) ==
    IF power <= 1 THEN items
    ELSE LET half == CrcMatrix_exponentiate_r(f, items, power \div 2, reference)
             sq == CrcMatrix_square(f, half)
         IN  IF ~IsMatrix(half) THEN half
             ELSE IF power % 2 # 0 THEN CrcMatrix_multiply(f, sq, reference)
             ELSE sq

CrcMatrix_exponentiate(f, items, power) ==
    CrcMatrix_exponentiate_r(f, items, power, CrcMatrix_transpose(items))

CrcMatrix_apply(f, items, v) ==
    LET vector == v \cup {32}
    IN  UNION {Shl(Reduce(f, items[i] \cap vector), 32 - i) : i \in 1..32}
            \cap 0..31

\* The bits of data pushed last byte first, each byte from bit 7 down
RECURSIVE PushBits(_, _, _, _)
PushBits(f, items, data, n) ==
    IF n = 8 * Len(data) THEN items
    ELSE LET byte == data[Len(data) - (n \div 8)]
             next == IF 7 - (n % 8) \in BitsOf(byte)
                     THEN CrcMatrix_push_1(f, items)
                     ELSE CrcMatrix_push_0(f, items)
         IN  IF IsMatrix(next) THEN PushBits(f, next, data, n + 1) ELSE next

\* matr.exponentiate(reps); matr.apply(v), after the pushes
MatrixRep(f, v, data, reps) ==
    CrcMatrix_apply(f,
        CrcMatrix_exponentiate(f, PushBits(f, CrcMatrix_new, data, 0), reps), v)

---------------------------------------------------------------------------
(* Payload::crc32: src/src/payload.rs *)

RECURSIVE CrcData(_, _, _, _)
CrcData(crc, data, i, n) ==
    IF i > n THEN crc ELSE CrcData(Crc_apply(crc, data[i]), data, i + 1, n)

CrcBomb(crc, b) ==
    LET full_blocks == b.size \div Len(b.data)
        extra_bytes == b.size % Len(b.data)
    IN  CrcData(MatrixRep("payload", crc, b.data, full_blocks), b.data, 1,
                extra_bytes)

RECURSIVE CrcSegs(_, _, _)
CrcSegs(crc, data, i) ==
    IF i > Len(data) THEN Done(crc)
    ELSE IF IsBlock(data[i])
    THEN IF ~data[i].known THEN Abort
         ELSE CrcSegs(CrcData(crc, data[i].data, 1, Len(data[i].data)), data, i + 1)
    ELSE CrcSegs(CrcBomb(crc, data[i]), data, i + 1)

\* Payload::crc32(): the four bytes returned, or a panic
Payload_crc32(data) ==
    LET r == CrcSegs(0..31, data, 1)
    IN  IF ~r.ok THEN Abort ELSE Done(CrcBytes(r.v))

---------------------------------------------------------------------------
(* AdlerEngine: src/src/payload/adler.rs.  s1 and s2 are u32.              *)

AdlerEngine_new == [kind |-> "adler", s1 |-> 1, s2 |-> 0]

AdlerEngine_apply1(e, data) ==
    LET s1 == (e.s1 + data) % 65521
    IN  [e EXCEPT !.s1 = s1, !.s2 = (e.s2 + s1) % 65521]

RECURSIVE AdlerEngine_apply(_, _, _)
AdlerEngine_apply(e, data, i) ==
    IF i > Len(data) THEN e
    ELSE AdlerEngine_apply(AdlerEngine_apply1(e, data[i]), data, i + 1)

\* The first loop of apply_rep: t1 += byte; t1 %= 65521; t2 += t1;
\* t2 += 65521.  t is [t1, t2, ovf], t2 a u32
RECURSIVE AdlerEngine_t(_, _, _)
AdlerEngine_t(t, data, i) ==
    IF i > Len(data) THEN t
    ELSE LET t1 == (t.t1 + data[i]) % 65521
             a == Add(t.t2, U32(t1))
             b == Add(a.v, U32(65521))
         IN  AdlerEngine_t([t1 |-> t1, t2 |-> b.v,
                            ovf |-> t.ovf \/ a.ovf \/ b.ovf], data, i + 1)

\* apply_rep(data, reps): the engine afterwards (e), computed with
\* wrap-around, whether an operation left the u32 range (ovf), and the
\* engine as the first such operation leaves it when it panics (part): the
\* assignments to self.s2 and self.s1 of the statements before it are
\* made, their reductions mod 65521 at the end are not
AdlerEngine_apply_rep(e, data, reps) ==
    LET t == AdlerEngine_t([t1 |-> 0, t2 |-> U32(0), ovf |-> FALSE], data, 1)
        t1 == U32(t.t1)
        tri == t.t2
        datalen == U32(Len(data) % 65521)
        rect == Mul(t1, datalen)
        full_blocks == U32(reps % 65521)
        fl == Mul(full_blocks, datalen)
        len == U32(Mod65521(fl.v))
        fbm1 == Sub(full_blocks, U32(1))
        x2 == Mul(full_blocks, fbm1.v)
        num_rects_x2 == U32(Mod65521(x2.v))
        nr == Mul(num_rects_x2, U32(32761))
        num_rects == U32(Mod65521(nr.v))
        m1 == Mul(U32(e.s1), len)
        s2a == Add(U32(e.s2), U32(Mod65521(m1.v)))
        m2 == Mul(t1, full_blocks)
        s1a == Add(U32(e.s1), U32(Mod65521(m2.v)))
        m3 == Mul(tri, full_blocks)
        s2b == Add(s2a.v, U32(Mod65521(m3.v)))
        m4 == Mul(rect.v, num_rects)
        s2c == Add(s2b.v, U32(Mod65521(m4.v)))
        before61 == \/ t.ovf \/ rect.ovf \/ fl.ovf \/ fbm1.ovf \/ x2.ovf
                    \/ nr.ovf
        at61 == m1.ovf \/ s2a.ovf
        at62 == m2.ovf \/ s1a.ovf
        at63 == m3.ovf \/ s2b.ovf
        at64 == m4.ovf \/ s2c.ovf
        s2_61 == e.s2 + Mod65521(m1.v)
        s1_62 == e.s1 + Mod65521(m2.v)
        s2_63 == s2_61 + Mod65521(m3.v)
    IN  [e |-> [e EXCEPT !.s1 = Mod65521(s1a.v), !.s2 = Mod65521(s2c.v)],
         ovf |-> before61 \/ at61 \/ at62 \/ at63 \/ at64,
         part |-> IF before61 \/ at61 THEN e
                  ELSE IF at62 THEN [e EXCEPT !.s2 = s2_61]
                  ELSE IF at63 THEN [e EXCEPT !.s2 = s2_61, !.s1 = s1_62]
                  ELSE [e EXCEPT !.s2 = s2_63, !.s1 = s1_62]]

AdlerEngine_bytes(e) ==
    <<AsU8(e.s2 \div 256), e.s2 % 256, AsU8(e.s1 \div 256), e.s1 % 256>>

---------------------------------------------------------------------------
(* Crc32Engine: src/src/payload/crc32.rs, on the CrcMatrix of matrix.rs.   *)

Crc32Engine_new == [kind |-> "crc32", v |-> 0..31]

Crc32Engine_apply1(e, data) == [e EXCEPT !.v = Crc_apply(e.v, data)]

\* ChecksumEngine::apply, the trait's loop over apply1
RECURSIVE ChecksumEngine_apply(_, _, _)
ChecksumEngine_apply(e, data, i) ==
    IF i > Len(data) THEN e
    ELSE ChecksumEngine_apply(Crc32Engine_apply1(e, data[i]), data, i + 1)

Crc32Engine_apply_rep(e, data, reps) ==
    [e |-> [e EXCEPT !.v = MatrixRep("matrix", e.v, data, reps)], ovf |-> FALSE,
     part |-> e]

Crc32Engine_bytes(e) == CrcBytes(e.v)

---------------------------------------------------------------------------
(* The payloads the model starts from, as main builds them from its        *)
(* arguments (-f gives a Block, -l and -L a Bomb) and as a library caller  *)
(* may build them with Block::new, Bomb::new and Payload::new.             *)

SegChoices ==
    {Block_new(<<>>), Block_new(<<65, 66>>), Bomb_new(<<65>>),
     Bomb_new(<<66, 67>>)}

\* One block longer than an uncompressed DEFLATE block can hold
BigBlock == Block_new([i \in 1..BigLen |-> 65])

Roots ==
    UNION {[1..k -> SegChoices] : k \in 0..MaxSegs} \cup {<<BigBlock>>}

SinkCaps == {-1, 1}

\* The sizes the caller fills with
FillSizes == 0..MaxSize \cup {5}

Top == stack[Len(stack)]

\* The operation that produced the current state
Last == hist[Len(hist)]

Called(op, n) == [op |-> op, n |-> n]

\* Number of fill calls made so far
Fills == Cardinality({i \in DOMAIN hist : hist[i].op = "fill"})

\* The sizes fill(n) propagates through k wrapper layers stay below MaxBomb
RECURSIVE FitsDepth(_, _)
FitsDepth(n, k) ==
    IF k = 0 THEN n <= MaxBomb
    ELSE /\ n <= (MaxBomb - 1290) \div 1032
         /\ FitsDepth(ChildSize(n), k - 1)

NoEngine == [kind |-> "none"]

Init ==
    /\ stack \in {<<r>> : r \in Roots}
    /\ status = "ok"
    /\ hist = <<Called("new", 0)>>
    /\ log = <<>>
    /\ out = <<>>
    /\ ret = 0
    /\ eng = NoEngine
    /\ checks = TRUE

\* A wrapper layer: the segments deflate_raw produces for the top payload
\* become a new payload whose child is the old top
Wrap ==
    /\ status = "ok"
    /\ Last.op \in {"new", "wrap"}
    /\ Len(stack) <= MaxDepth
    /\ LET r == deflate_raw(Top)
       IN  /\ stack' = IF r.ok THEN Append(stack, r.output) ELSE stack
           /\ status' = IF r.ok THEN "ok" ELSE "panic"
    /\ hist' = Append(hist, Called("wrap", 0))
    /\ log' = <<>>
    /\ UNCHANGED <<out, ret, eng, checks>>

\* payload.fill(n) on the top payload
Fill(n) ==
    /\ status = "ok"
    /\ Last.op # "write"
    /\ Fills < MaxFills
    /\ FitsDepth(n, Len(stack) - 1)
    /\ LET m == Payload_fill([st |-> stack, log |-> <<>>, ok |-> TRUE],
                             Len(stack), n)
       IN  /\ stack' = m.st
           /\ log' = m.log
           /\ status' = IF m.ok THEN "ok" ELSE "panic"
    /\ hist' = Append(hist, Called("fill", n))
    /\ UNCHANGED <<out, ret, eng, checks>>

\* payload.write(sink) on the top payload
Write(cap) ==
    /\ status = "ok"
    /\ Last.op # "write"
    /\ LET w == Payload_write(Top, cap)
       IN  /\ out' = w.out
           /\ ret' = IF w.ok THEN w.size ELSE 0
           /\ status' = IF w.ok THEN "ok" ELSE "panic"
    /\ hist' = Append(hist, Called("write", cap))
    /\ log' = <<>>
    /\ UNCHANGED <<stack, eng, checks>>

Next ==
    \/ Wrap
    \/ \E n \in FillSizes : Fill(n)
    \/ \E cap \in SinkCaps : Write(cap)

Spec == Init /\ [][Next]_vars

\* b.fill(child, n) on the Bomb at segment i of layer L, called by the owner
\* of the stack: the child handed over is the payload below layer L
BombFill(L, i, n) ==
    /\ status = "ok"
    /\ Last.op \in {"new", "wrap", "fill", "blockfill"}
    /\ L \in 1..Len(stack)
    /\ i \in 1..Len(stack[L])
    /\ IsBomb(stack[L][i])
    /\ FitsDepth(n, L - 1)
    /\ LET m == Bomb_fill([st |-> stack, log |-> <<>>, ok |-> TRUE], L, i, n)
       IN  /\ stack' = m.st
           /\ log' = m.log
           /\ status' = IF m.ok THEN "ok" ELSE "panic"
    /\ hist' = Append(hist, Called("bombfill", n))
    /\ UNCHANGED <<out, ret, eng, checks>>

\* b.fill(child) on the Block at segment i of layer L, called by the owner
\* of the stack: the child handed over is the payload below layer L, None
\* for the root
BlockFill(L, i) ==
    /\ status = "ok"
    /\ Last.op \in {"new", "wrap", "fill"}
    /\ L \in 1..Len(stack)
    /\ i \in 1..Len(stack[L])
    /\ IsBlock(stack[L][i])
    /\ LET m == Block_fill([st |-> stack, log |-> <<>>, ok |-> TRUE], L, i)
       IN  /\ stack' = m.st
           /\ log' = m.log
           /\ status' = IF m.ok THEN "ok" ELSE "panic"
    /\ hist' = Append(hist, Called("blockfill", 0))
    /\ UNCHANGED <<out, ret, eng, checks>>

\* Payloads that are built, wrapped and filled, and then have one of their
\* blocks and one of their bombs filled on its own
NextBombFill ==
    \/ Wrap
    \/ Last.op \notin {"blockfill", "bombfill"} /\ \E n \in FillSizes : Fill(n)
    \/ \E L \in 1..(MaxDepth + 1) : \E i \in 1..(2 * MaxSegs + 1) :
           BlockFill(L, i)
    \/ \E L \in 1..(MaxDepth + 1) : \E i \in 1..(2 * MaxSegs + 1) :
           \E n \in FillSizes : BombFill(L, i, n)

SpecBombFill == Init /\ [][NextBombFill]_vars

---------------------------------------------------------------------------
(* The checksums of a payload.  The caller has built a payload of Known    *)
(* blocks and of bombs whose sizes are set, and asks for a checksum.  The  *)
(* build traps arithmetic overflow (checks) or wraps.                      *)

SumPatterns == {<<65>>, <<66, 67>>}
SumBlocks == {Block_new(<<>>), Block_new(<<65, 66>>)}

\* Bomb sizes: 0, below and above the pattern length, and repetition counts
\* around the multiples of 65521
AdlerSizes == {0, 1, 2, 3, 5, 65520, 65521, 65522, 131042, 131043, 200001}
CrcSizes == {0, 1, 2, 3, 5}

Sized(p, n) == [Bomb_new(p) EXCEPT !.size = n]

SumSegs(sizes) == SumBlocks \cup {Sized(p, n) : p \in SumPatterns, n \in sizes}

SumPayloads(sizes) ==
    {<<a>> : a \in SumSegs(sizes)}
        \cup {<<a, b>> : a \in SumSegs(sizes), b \in SumSegs(sizes)}

SumInit(sizes) ==
    /\ stack \in {<<p>> : p \in SumPayloads(sizes)}
    /\ status = "ok"
    /\ hist = <<Called("new", 0)>>
    /\ log = <<>>
    /\ out = <<>>
    /\ ret = 0
    /\ eng = NoEngine

InitAdler32 == SumInit(AdlerSizes) /\ checks \in BOOLEAN
InitCrc32 == SumInit(CrcSizes) /\ checks = TRUE

\* payload.adler32()
Adler32 ==
    /\ status = "ok"
    /\ Last.op = "new"
    /\ LET r == Payload_adler32(Top, checks)
       IN  /\ ret' = r.v
           /\ status' = IF r.ok THEN "ok" ELSE "panic"
    /\ hist' = Append(hist, Called("adler32", 0))
    /\ UNCHANGED <<stack, log, out, eng, checks>>

\* payload.crc32()
Crc32 ==
    /\ status = "ok"
    /\ Last.op = "new"
    /\ LET r == Payload_crc32(Top)
       IN  /\ ret' = r.v
           /\ status' = IF r.ok THEN "ok" ELSE "panic"
    /\ hist' = Append(hist, Called("crc32", 0))
    /\ UNCHANGED <<stack, log, out, eng, checks>>

NextAdler32 == Adler32
NextCrc32 == Crc32

SpecAdler32 == InitAdler32 /\ [][NextAdler32]_vars
SpecCrc32 == InitCrc32 /\ [][NextCrc32]_vars

---------------------------------------------------------------------------
(* The checksum engines.  A caller makes one of the call sequences of      *)
(* Programs on a new engine; hist records the calls made.                  *)

EngineCall(op, data, reps) == [op |-> op, n |-> reps, data |-> data]

\* The calls of the tests of adler.rs and crc32.rs
TestCalls ==
    <<EngineCall("apply1", <<116>>, 1),
      EngineCall("apply", <<101, 115, 116, 32>>, 1),
      EngineCall("apply_rep", <<97, 98, 99>>, 3),
      EngineCall("apply1", <<100>>, 1)>>

FirstCalls ==
    {EngineCall("apply1", <<116>>, 1), EngineCall("apply1", <<0>>, 1),
     EngineCall("apply", <<101, 115>>, 1), EngineCall("apply", <<>>, 1)}

LastCalls == {EngineCall("apply1", <<100>>, 1), EngineCall("apply", <<115, 116>>, 1)}

AdlerReps ==
    {EngineCall("apply_rep", p, n) :
        p \in {<<97>>, <<97, 98, 99>>, <<255, 255, 255>>},
        n \in {0, 1, 2, 3, 40000, 65520, 65521, 65522}}

CrcReps ==
    {EngineCall("apply_rep", p, n) : p \in {<<97>>, <<97, 98>>}, n \in {0, 1, 2, 3}}

\* An apply_rep, on a new engine or after a first call, and then a last
\* call or none; and the calls of the tests
ProgramsOver(reps) ==
    {<<r>> : r \in reps}
        \cup {<<c, r>> : c \in FirstCalls, r \in reps}
        \cup {<<r, l>> : r \in reps, l \in LastCalls}
        \cup {<<c, r, l>> : c \in FirstCalls, r \in reps, l \in LastCalls}
        \cup {TestCalls}

Programs == IF eng.kind = "adler" THEN ProgramsOver(AdlerReps) ELSE ProgramsOver(CrcReps)

\* The calls made so far
Calls == Tail(hist)

\* The caller may make call c next
MayCall(c) ==
    {prog \in Programs :
        /\ Len(prog) > Len(Calls)
        /\ SubSeq(prog, 1, Len(Calls) + 1) = Append(Calls, c)} # {}

EngineInit(e) ==
    /\ eng = e
    /\ stack = <<>>
    /\ status = "ok"
    /\ hist = <<Called("new", 0)>>
    /\ log = <<>>
    /\ out = <<>>
    /\ ret = 0

InitAdlerEngine == EngineInit(AdlerEngine_new) /\ checks \in BOOLEAN
InitCrc32Engine == EngineInit(Crc32Engine_new) /\ checks = TRUE

\* engine.apply1(data)
Apply1(data) ==
    /\ status = "ok"
    /\ MayCall(EngineCall("apply1", <<data>>, 1))
    /\ eng' = IF eng.kind = "adler" THEN AdlerEngine_apply1(eng, data)
              ELSE Crc32Engine_apply1(eng, data)
    /\ hist' = Append(hist, EngineCall("apply1", <<data>>, 1))
    /\ log' = <<>>
    /\ UNCHANGED <<stack, status, out, ret, checks>>

\* engine.apply(data)
Apply(data) ==
    /\ status = "ok"
    /\ MayCall(EngineCall("apply", data, 1))
    /\ eng' = IF eng.kind = "adler" THEN AdlerEngine_apply(eng, data, 1)
              ELSE ChecksumEngine_apply(eng, data, 1)
    /\ hist' = Append(hist, EngineCall("apply", data, 1))
    /\ log' = <<>>
    /\ UNCHANGED <<stack, status, out, ret, checks>>

\* engine.apply_rep(data, reps): an operation that leaves the u32 range
\* panics in a build that checks, and the engine stays as the statements
\* before it left it; log tells that one did
ApplyRep(data, reps) ==
    /\ status = "ok"
    /\ MayCall(EngineCall("apply_rep", data, reps))
    /\ LET r == IF eng.kind = "adler" THEN AdlerEngine_apply_rep(eng, data, reps)
                ELSE Crc32Engine_apply_rep(eng, data, reps)
       IN  /\ status' = IF r.ovf /\ checks THEN "panic" ELSE "ok"
           /\ eng' = IF r.ovf /\ checks THEN r.part ELSE r.e
           /\ log' = IF r.ovf THEN <<"overflow">> ELSE <<>>
    /\ hist' = Append(hist, EngineCall("apply_rep", data, reps))
    /\ UNCHANGED <<stack, out, ret, checks>>

\* The arguments of the calls the programs make
OtherCalls == FirstCalls \cup LastCalls \cup {TestCalls[i] : i \in DOMAIN TestCalls}
CallBytes == {c.data[1] : c \in {x \in OtherCalls : x.op = "apply1"}}
CallData == {c.data : c \in {x \in OtherCalls : x.op = "apply"}}
CallReps == {<<c.data, c.n>> : c \in AdlerReps \cup CrcReps \cup {TestCalls[3]}}

NextEngine ==
    \/ \E data \in CallBytes : Apply1(data)
    \/ \E data \in CallData : Apply(data)
    \/ \E c \in CallReps : ApplyRep(c[1], c[2])

SpecAdlerEngine == InitAdlerEngine /\ [][NextEngine]_vars
SpecCrc32Engine == InitCrc32Engine /\ [][NextEngine]_vars

---------------------------------------------------------------------------
(* Properties of filling and of the DEFLATE layers *)

Layers == 1..Len(stack)
Segs(L) == 1..Len(stack[L])

\* fill has returned on the top payload
Filled == Last.op = "fill" /\ status = "ok"

\* Bomb::fill ran on segment i of layer L during the last operation and
\* left it with the size it has now
Assigned(L, i) ==
    \E k \in DOMAIN log : log[k] = <<"bomb", L, i, stack[L][i].size>>

\* C1: once fill(n) has returned on the top payload, every block of every
\* layer is Known and every bomb of every layer has had its size assigned by
\* that fill, the bombs of the top layer to n.
C1_AllFilled ==
    Filled =>
        \A L \in Layers : \A i \in Segs(L) :
            /\ IsBlock(stack[L][i]) => stack[L][i].known
            /\ IsBomb(stack[L][i]) => Assigned(L, i)
            /\ IsBomb(stack[L][i]) /\ L = Len(stack)
                   => stack[L][i].size = Last.n

\* Two wrapper layers over a root with a block and a bomb, filled
C1_Witness ==
    /\ Filled
    /\ Len(stack) = 3
    /\ Last.n = 1
    /\ \E i \in Segs(1) : IsBomb(stack[1][i])
    /\ \E i \in Segs(1) : IsBlock(stack[1][i])
    /\ \E i \in Segs(2) : IsBomb(stack[2][i])

\* C2: after fill(n), the bomb of the child layer that a wrapper bomb
\* corresponds to has size 1032 * (wrapper bomb's size) + 1291.
C2_Layering ==
    Filled =>
        \A L \in Layers : \A i \in Segs(L) :
            IsBomb(stack[L][i]) /\ stack[L][i].prop =>
                stack[L - 1][stack[L][i].end + 1].size
                    = 1032 * stack[L][i].size + 1291

\* The sub-blocks of a byte vector read as uncompressed DEFLATE blocks from
\* position p on: a header byte, LEN, NLEN (the complement of LEN), then LEN
\* literal bytes.  ok is FALSE when the bytes are not such a sequence.
RECURSIVE Stored(_, _)
Stored(bytes, p) ==
    IF p > Len(bytes) THEN [ok |-> TRUE, lit |-> <<>>]
    ELSE IF p + 4 > Len(bytes) THEN [ok |-> FALSE, lit |-> <<>>]
    ELSE LET len == bytes[p + 1] + 256 * bytes[p + 2]
             nlen == bytes[p + 3] + 256 * bytes[p + 4]
             rest == Stored(bytes, p + 5 + len)
         IN  IF nlen # 65535 - len \/ p + 4 + len > Len(bytes)
             THEN [ok |-> FALSE, lit |-> <<>>]
             ELSE [ok |-> rest.ok,
                   lit |-> SubSeq(bytes, p + 5, p + 4 + len) \o rest.lit]

\* The bytes of the segments i..j of a layer, a bomb counting as one copy
\* of its pattern
RECURSIVE GroupBytes(_, _, _)
GroupBytes(data, i, j) ==
    IF i > j \/ i > Len(data) THEN <<>>
    ELSE data[i].data \o GroupBytes(data, i + 1, j)

\* The wrapper blocks: the blocks deflate_raw created for a group
IsWrapper(L, i) ==
    L > 1 /\ IsBlock(stack[L][i])
          /\ (i = Len(stack[L]) => ~IsBomb(stack[L - 1][Len(stack[L - 1])]))

\* The sub-block part of wrapper block b: all but the 13 bytes of the bomb
\* header when a bomb follows the group
Body(b) ==
    IF b.has_rep THEN SubSeq(b.data, 1, Len(b.data) - 13) ELSE b.data

\* C3: once fill has run, every wrapper block is resolved and consists of
\* uncompressed sub-blocks (LEN, NLEN, LEN literal bytes) whose literal
\* bytes are the bytes of the group's child blocks followed by one copy of
\* the trailing bomb's pattern.
C3_StoredBlocks ==
    Last.op = "fill" =>
        \A L \in Layers : \A i \in Segs(L) :
            IsWrapper(L, i) =>
                LET b == stack[L][i]
                    group == GroupBytes(stack[L - 1], b.start_c + 1,
                                 FindEnd(stack[L - 1], b.start_c) + 1)
                IN  /\ b.known
                    /\ Stored(Body(b), 1).ok
                    /\ Stored(Body(b), 1).lit = group

Ceil(a, b) == (a + b - 1) \div b

\* C4: the bytes a wrapper block's resolver returned are as many as the
\* block's len, and len = ceil(data_len/65535)*5 + data_len + 13 if a bomb
\* follows the group.
C4_BlockLen ==
    Filled =>
        \A L \in Layers : \A i \in Segs(L) :
            IsWrapper(L, i) /\ stack[L][i].known =>
                LET b == stack[L][i]
                IN  /\ Len(b.data) = b.len
                    /\ b.len = Ceil(b.data_len, 65535) * 5 + b.data_len
                                 + (IF b.has_rep THEN 13 ELSE 0)

---------------------------------------------------------------------------
(* Properties of writing and of repeated fills *)

\* What a segment expands to: the length, and byte k of it
ExpLen(seg) == IF IsBlock(seg) THEN Len(seg.data) ELSE seg.size

RECURSIVE TotalLen(_, _)
TotalLen(data, i) ==
    IF i > Len(data) THEN 0 ELSE ExpLen(data[i]) + TotalLen(data, i + 1)

\* The bytes segments i.. stand for: a block's bytes; for a bomb, byte
\* pattern[k mod len(pattern)] for k in [0, size)
RECURSIVE Expansion(_, _)
Expansion(data, i) ==
    IF i > Len(data) THEN <<>>
    ELSE (IF IsBlock(data[i]) THEN data[i].data
          ELSE [k \in 1..data[i].size |->
                   data[i].data[((k - 1) % Len(data[i].data)) + 1]])
         \o Expansion(data, i + 1)

\* C9: when write returns, the sink holds, in segment order, the bytes of
\* each block and size bytes pattern[i mod len(pattern)] for each bomb, and
\* the value returned is their number: the sum of the block lengths and of
\* the bomb sizes.
C9_Write ==
    Last.op = "write" /\ status = "ok" =>
        /\ out = Expansion(Top, 1)
        /\ ret = TotalLen(Top, 1)

\* A block and a two-byte bomb of size 5, written: the pattern is cut in
\* the middle of a repetition
C9_Witness ==
    /\ Last.op = "write" /\ status = "ok"
    /\ Len(stack) = 1
    /\ Len(Top) = 2
    /\ IsBomb(Top[2]) /\ Top[2].size = 5 /\ Top[2].data = <<66, 67>>
    /\ out = <<65, 66, 66, 67, 66, 67, 66>>
    /\ ret = 7

\* C10: a fill(n) that follows a fill(n) leaves every bomb size and every
\* block of every layer as the first fill left them.
C10_IdempotentFill ==
    [][Filled /\ hist' = Append(hist, Called("fill", Last.n))
          => status' = "ok" /\ stack' = stack]_vars

\* fill(1) called twice on a wrapped payload with a bomb
C10_Witness ==
    /\ Filled
    /\ Len(hist) >= 2
    /\ hist[Len(hist) - 1] = Called("fill", 1)
    /\ Last.n = 1
    /\ Len(stack) = 3
    /\ \E i \in Segs(1) : IsBomb(stack[1][i])

---------------------------------------------------------------------------
(* Properties of the checksums *)

\* a * b % 65521 for a, b below 65521
MulMod(a, b) == (((a * (b \div 256)) % 65521) * 256 + a * (b % 256)) % 65521

\* What a byte string does to the Adler-32 sums: over its n bytes, s1 grows
\* by their sum a, and s2 by n times the s1 it starts from plus b, the sum
\* of the bytes each counted once for every byte from it to the end; n, a
\* and b are kept mod 65521
NoBytes == [n |-> 0, a |-> 0, b |-> 0]

\* x followed by y
Cat(x, y) ==
    [n |-> (x.n + y.n) % 65521,
     a |-> (x.a + y.a) % 65521,
     b |-> (x.b + MulMod(y.n, x.a) + y.b) % 65521]

RECURSIVE SumOf(_, _, _)
SumOf(bytes, i, n) ==
    IF i > n THEN NoBytes
    ELSE Cat([n |-> 1, a |-> bytes[i], b |-> bytes[i]], SumOf(bytes, i + 1, n))

\* x repeated k times
RECURSIVE Repeated(_, _)
Repeated(x, k) ==
    IF k = 0 THEN NoBytes
    ELSE LET h == Repeated(x, k \div 2)
         IN  IF k % 2 = 1 THEN Cat(Cat(h, h), x) ELSE Cat(h, h)

\* The sums <<s1, s2>> after the bytes x, from the sums s
After(s, x) == <<(s[1] + x.a) % 65521, (s[2] + MulMod(x.n, s[1]) + x.b) % 65521>>

\* The bytes a segment stands for
SegBytes(seg) ==
    IF IsBlock(seg) THEN SumOf(seg.data, 1, Len(seg.data))
    ELSE Cat(Repeated(SumOf(seg.data, 1, Len(seg.data)), seg.size \div Len(seg.data)),
             SumOf(seg.data, 1, seg.size % Len(seg.data)))

RECURSIVE AllBytes(_, _)
AllBytes(data, i) ==
    IF i > Len(data) THEN NoBytes ELSE Cat(SegBytes(data[i]), AllBytes(data, i + 1))

\* The Adler-32 of the expansion of data, s2 first
Adler32Of(data) ==
    LET s == After(<<1, 0>>, AllBytes(data, 1))
    IN  <<s[2] \div 256, s[2] % 256, s[1] \div 256, s[1] % 256>>

\* The CRC-32 of a byte string, most significant byte first
Crc32Of(bytes) == CrcBytes(CrcData(0..31, bytes, 1, Len(bytes)))

\* The CRC register after data has been fed n times, from v
RECURSIVE CrcRepeated(_, _, _)
CrcRepeated(v, data, n) ==
    IF n = 0 THEN v ELSE CrcRepeated(CrcData(v, data, 1, Len(data)), data, n - 1)

\* C5: adler32() returns, without an arithmetic fault, the Adler-32 of the
\* payload's expanded bytes (s2 high, s2 low, s1 high, s1 low), whatever the
\* sizes of its bombs: zero, not a multiple of the pattern length, or with
\* a repetition count that is a multiple of 65521.
C5_Adler32 ==
    Last.op = "adler32" => status = "ok" /\ ret = Adler32Of(Top)

\* C6: crc32() returns the CRC-32 of the payload's expanded bytes, most
\* significant byte first, also for bombs whose size is 0 or below the
\* pattern length.
C6_Crc32 ==
    Last.op = "crc32" => status = "ok" /\ ret = Crc32Of(Expansion(Top, 1))

\* C7: apply_rep(pattern, reps) on an AdlerEngine leaves s1 and s2 as reps
\* calls of apply(pattern) would, with no operation leaving the u32 range
\* (reps = 0 changes nothing), and the calls of the test of adler.rs give
\* the bytes 2e 12 05 b7.
C7_AdlerApplyRep ==
    /\ [][LET c == hist'[Len(hist')]
          IN  hist' # hist /\ c.op = "apply_rep" =>
                  /\ status' = "ok"
                  /\ log' = <<>>
                  /\ <<eng'.s1, eng'.s2>> =
                         After(<<eng.s1, eng.s2>>,
                               Repeated(SumOf(c.data, 1, Len(c.data)), c.n))]_vars
    /\ [](Calls = TestCalls /\ status = "ok" =>
              AdlerEngine_bytes(eng) = <<46, 18, 5, 183>>)

\* C8: apply_rep(pattern, reps) on a Crc32Engine leaves the register as
\* feeding pattern through apply1 reps times would, from any register, and
\* the calls of the test of crc32.rs give the bytes 9d 1e ef de.
C8_CrcApplyRep ==
    /\ [][LET c == hist'[Len(hist')]
          IN  hist' # hist /\ c.op = "apply_rep" =>
                  /\ status' = "ok"
                  /\ eng'.v = CrcRepeated(eng.v, c.data, c.n)]_vars
    /\ [](Calls = TestCalls => Crc32Engine_bytes(eng) = <<157, 30, 239, 222>>)

---------------------------------------------------------------------------
(* Properties of writing an unfilled payload, of the wrapper layer that    *)
(* deflate_raw builds and of the order of the calls during fill            *)

Unfilled(data) == {i \in DOMAIN data : IsBlock(data[i]) /\ ~data[i].known}

\* The segments before the first Unfilled block of a payload
KnownPrefix(data) ==
    SubSeq(data, 1, (CHOOSE i \in Unfilled(data) :
                        \A j \in Unfilled(data) : i <= j) - 1)

IsPrefix(s, t) == Len(s) <= Len(t) /\ s = SubSeq(t, 1, Len(s))

\* C11: write on a payload that contains an Unfilled block panics, and the
\* sink holds nothing beyond the bytes of the segments before the first
\* Unfilled block; so a write that returned on a wrapper payload follows a
\* fill.
C11_WriteUnfilled ==
    Last.op = "write" =>
        /\ Unfilled(Top) # {} =>
               /\ status = "panic"
               /\ IsPrefix(out, Expansion(KnownPrefix(Top), 1))
        /\ status = "ok" /\ Len(stack) > 1 => Fills > 0

\* A wrapper payload written before any fill, and a payload whose trailing
\* 1-byte block is Known written after the Unfilled block before it
C11_Witness ==
    /\ Last.op = "write" /\ status = "panic"
    /\ Len(stack) = 2 /\ Fills = 0
    /\ Len(Top) = 3 /\ Unfilled(Top) = {1} /\ Top[3].known
    /\ out = <<>>

\* The positions of the bombs of a payload, and the k-th of them
BombIdx(data) == {i \in DOMAIN data : IsBomb(data[i])}
Kth(S, k) == CHOOSE i \in S : Cardinality({j \in S : j <= i}) = k

\* C12: a wrapper layer over a source with b bombs is Block, Bomb, ...,
\* Bomb, Block with b bombs: the k-th group runs from the segment after the
\* (k-1)-th source bomb to the k-th source bomb and gives one Block and one
\* Bomb of pattern [0x55] whose closure fills the k-th source bomb; blocks
\* after the last source bomb give one Block and no Bomb.
C12_Groups ==
    \A L \in Layers : L > 1 =>
        LET src == stack[L - 1]
            outp == stack[L]
            b == Cardinality(BombIdx(src))
        IN  /\ Len(outp) = 2 * b + 1
            /\ Cardinality(BombIdx(outp)) = b
            /\ \A k \in 1..b :
                   LET blk == outp[2 * k - 1]
                       bmb == outp[2 * k]
                   IN  /\ IsBlock(blk) /\ blk.has_rep
                       /\ blk.start_c
                              = (IF k = 1 THEN 0 ELSE Kth(BombIdx(src), k - 1))
                       /\ IsBomb(bmb) /\ bmb.data = <<85>> /\ bmb.prop
                       /\ bmb.end + 1 = Kth(BombIdx(src), k)
                       /\ Filled =>
                              src[Kth(BombIdx(src), k)].size
                                  = ChildSize(bmb.size)
            /\ IsBlock(outp[2 * b + 1])
            /\ IsBlock(src[Len(src)]) =>
                   /\ ~outp[2 * b + 1].has_rep
                   /\ outp[2 * b + 1].start_c
                          = (IF b = 0 THEN 0 ELSE Kth(BombIdx(src), b))

\* A source of a bomb, a block and a bomb, wrapped and filled, and a
\* wrapper over a source that ends with a block
C12_Witness ==
    /\ Filled /\ Len(stack) = 3 /\ Last.n = 1
    /\ Len(stack[1]) = 3 /\ BombIdx(stack[1]) = {1, 3}
    /\ Len(stack[1][2].data) = 2
    /\ Len(stack[2]) = 5 /\ Len(stack[3]) = 5

\* C13: a wrapper layer over a source that ends with a bomb ends, after its
\* last [0x55] bomb, with one more block, Known from the start, whose one
\* byte is 0x05; over a source that ends with a block, the wrapper layer
\* ends with the wrapper block of the last group.
C13_Terminator ==
    \A L \in Layers : L > 1 =>
        LET src == stack[L - 1]
            outp == stack[L]
            b == Cardinality(BombIdx(src))
            final == outp[Len(outp)]
        IN  /\ Len(outp) = 2 * b + 1
            /\ IsBlock(final)
            /\ IsBomb(src[Len(src)]) =>
                   /\ IsBomb(outp[Len(outp) - 1])
                   /\ final.known /\ final.data = <<5>>
            /\ IsBlock(src[Len(src)]) =>
                   /\ b > 0 => IsBomb(outp[Len(outp) - 1])
                   /\ final.is_last /\ ~final.has_rep
                   /\ FindEnd(src, final.start_c) = Len(src)

\* C14: the bytes of a resolved wrapper block whose group is followed by a
\* bomb end with ec c0 81 00 00 00 00 00 90 ff 6b 23 54, in the terminal
\* group as in every other.
C14_BombHeader ==
    \A L \in Layers : \A i \in Segs(L) :
        L > 1 /\ IsBlock(stack[L][i]) /\ stack[L][i].has_rep
              /\ stack[L][i].known =>
            LET d == stack[L][i].data
            IN  /\ Len(d) >= 13
                /\ SubSeq(d, Len(d) - 12, Len(d))
                       = <<236, 192, 129, 0, 0, 0, 0, 0, 144, 255, 107, 35, 84>>

\* C15: deflate_raw aborts on a payload that holds a bomb whose pattern is
\* longer than one byte, so no payload under a wrapper layer holds such a
\* bomb.
C15_MultiByte ==
    \A L \in Layers : \A i \in Segs(L) :
        L < Len(stack) /\ IsBomb(stack[L][i]) => Len(stack[L][i].data) <= 1

\* The calls of resolvers and the assignments of bomb sizes in the log of
\* the last fill
Resolves == {k \in DOMAIN log : log[k][1] = "resolve"}
BombSets == {k \in DOMAIN log : log[k][1] = "bomb"}

\* C16: when fill invokes the resolver of a block of layer L, the size of
\* every bomb of every layer has been set, every block of the layers below
\* L is Known (it was Known before, or its resolver has returned earlier
\* in this fill), and layer L has a child, which is what the resolver
\* reads.
C16_Order ==
    Last.op = "fill" =>
        \A k \in Resolves :
            LET L == log[k][2]
            IN  /\ L > 1 /\ L <= Len(stack)
                /\ \A k2 \in BombSets : k2 < k
                /\ \A L2 \in Layers : \A i \in Segs(L2) :
                       IsBomb(stack[L2][i]) =>
                           \E k2 \in BombSets :
                               log[k2] = <<"bomb", L2, i, stack[L2][i].size>>
                /\ \A L2 \in 1..(L - 1) : \A i \in Segs(L2) :
                       IsBlock(stack[L2][i]) =>
                           /\ stack[L2][i].known
                           /\ \A k2 \in Resolves :
                                  log[k2] = <<"resolve", L2, i>> => k2 < k

\* A fill of two wrapper layers over a bomb, a block and a bomb: after the
\* six bomb sizes are set, two resolvers run in the lower wrapper layer and
\* then three in the upper one
C16_Witness ==
    /\ Filled /\ Len(stack) = 3
    /\ BombIdx(stack[1]) = {1, 3}
    /\ Cardinality(BombSets) = 6
    /\ Cardinality({k \in Resolves : log[k][2] = 2}) = 2
    /\ Cardinality({k \in Resolves : log[k][2] = 3}) = 3

\* C17: no step turns a Known block into an Unfilled one or changes its
\* bytes, and a fill invokes the resolver of a block at most once and only
\* if the block was Unfilled when the fill began; so over any sequence of
\* fills each resolver is invoked at most once.
C17_OneShot ==
    [][/\ Len(stack') >= Len(stack)
       /\ \A L \in Layers : \A i \in Segs(L) :
              IsBlock(stack[L][i]) /\ stack[L][i].known
                  => stack'[L][i] = stack[L][i]
       /\ \A k \in DOMAIN log' :
              log'[k][1] = "resolve" =>
                  /\ ~stack[log'[k][2]][log'[k][3]].known
                  /\ \A k2 \in DOMAIN log' : log'[k2] = log'[k] => k2 = k
      ]_vars

\* A second fill, with another size, of a payload whose wrapper blocks the
\* first fill resolved: no resolver runs again
C17_Witness ==
    /\ Filled /\ Fills = 2 /\ Len(stack) = 3
    /\ hist[Len(hist) - 1].op = "fill" /\ hist[Len(hist) - 1].n = 0
    /\ Last.n = 5
    /\ BombSets # {} /\ Resolves = {}
    /\ \E i \in Segs(3) : IsBlock(stack[3][i]) /\ stack[3][i].has_rep

\* The size Bomb::fill(s) on bomb i of layer L gives to segment i2 of layer
\* L2, or -1 when it gives it none: s to the bomb itself, and what its
\* closure hands to the bomb it corresponds to in the layer below, and so
\* on down
RECURSIVE Target(_, _, _, _, _)
Target(L, i, s, L2, i2) ==
    IF L = L2 THEN (IF i = i2 THEN s ELSE -1)
    ELSE IF L2 > L \/ ~stack[L][i].prop THEN -1
    ELSE Target(L - 1, stack[L][i].end + 1, ChildSize(s), L2, i2)

\* C18: Bomb::fill(s) on one bomb sets the size of that bomb to s and the
\* sizes of the bombs below it that it corresponds to, layer by layer; every
\* other bomb of every layer keeps its size and every block its state and
\* bytes.  The closure alone leaves the layer of the bomb that carries it
\* as it is.
C18_BombFill ==
    [][hist' = Append(hist, Called("bombfill", Last'.n)) =>
          LET e == log'[Len(log')]
              L == e[2]
              i == e[3]
              s == e[4]
              alone == DeflateFill([st |-> stack, log |-> <<>>, ok |-> TRUE],
                                   L, stack[L][i].end, s)
          IN  /\ status' = "ok"
              /\ e[1] = "bomb" /\ s = Last'.n
              /\ IsBomb(stack[L][i])
              /\ stack'[L][i].size = s
              /\ Len(stack') = Len(stack)
              /\ \A L2 \in Layers : Len(stack'[L2]) = Len(stack[L2])
              /\ \A L2 \in Layers : \A i2 \in Segs(L2) :
                     stack'[L2][i2] =
                         IF Target(L, i, s, L2, i2) >= 0
                         THEN [stack[L2][i2] EXCEPT
                                  !.size = Target(L, i, s, L2, i2)]
                         ELSE stack[L2][i2]
              /\ stack[L][i].prop =>
                     /\ alone.ok
                     /\ alone.st[L] = stack[L]
                     /\ \A L2 \in 1..(L - 1) : alone.st[L2] = stack'[L2]
      ]_vars

\* After fill(5) on two wrapper layers over a payload with two bombs, the
\* first bomb of the top layer is filled with 0: three sizes are set, the
\* other bombs keep the sizes fill(5) gave them
C18_Witness ==
    /\ Last.op = "bombfill" /\ Last.n = 0 /\ status = "ok"
    /\ hist[Len(hist) - 1] = Called("fill", 5)
    /\ Len(stack) = 3
    /\ Cardinality(BombIdx(stack[1])) = 2
    /\ log = <<<<"bomb", 1, Kth(BombIdx(stack[1]), 1), 1332570>>,
               <<"bomb", 2, 2, 1290>>, <<"bomb", 3, 2, 0>>>>
    /\ stack[3][4].size = 5 /\ stack[2][4].size = 6450
    /\ stack[1][Kth(BombIdx(stack[1]), 2)].size = 6657690

\* The stack as it was built: the root with the sizes of its bombs not yet
\* set, under as many wrapper layers as the stack has
Unset(data) ==
    [i \in DOMAIN data |->
        IF IsBomb(data[i]) THEN [data[i] EXCEPT !.size = 0] ELSE data[i]]

RECURSIVE Rewrap(_, _)
Rewrap(st, k) ==
    IF k = 0 THEN st
    ELSE Rewrap(Append(st, deflate_raw(st[Len(st)]).output), k - 1)

Fresh == Rewrap(<<Unset(stack[1])>>, Len(stack) - 1)

\* C19: a fill(m) that follows a fill(n) with m # n returns; it leaves every
\* bomb of every layer with the size that fill(m) alone gives it on the
\* stack as built, and leaves every block of every layer as the first fill
\* left it.
C19_Refill ==
    [][Filled /\ hist' = Append(hist, Called("fill", Last'.n))
              /\ Last'.n # Last.n =>
          LET single == Payload_fill([st |-> Fresh, log |-> <<>>, ok |-> TRUE],
                                     Len(stack), Last'.n)
          IN  /\ status' = "ok"
              /\ Len(stack') = Len(stack)
              /\ \A L \in Layers :
                     /\ Len(stack'[L]) = Len(stack[L])
                     /\ \A i \in Segs(L) :
                            /\ IsBlock(stack[L][i])
                                   => stack'[L][i] = stack[L][i]
                            /\ IsBomb(stack[L][i]) =>
                                   /\ stack'[L][i]
                                          = [stack[L][i] EXCEPT
                                               !.size = single.st[L][i].size]
                                   /\ L = Len(stack)
                                          => stack'[L][i].size = Last'.n
      ]_vars

\* fill(1) and then fill(5) on two wrapper layers over a block and a bomb
C19_Witness ==
    /\ Filled /\ Fills = 2 /\ Len(stack) = 3
    /\ hist[Len(hist) - 1] = Called("fill", 1)
    /\ Last.n = 5
    /\ Len(stack[1]) = 2 /\ IsBlock(stack[1][1]) /\ IsBomb(stack[1][2])
    /\ stack[3][2].size = 5 /\ stack[2][2].size = 6450
    /\ stack[1][2].size = 6657690
    /\ stack[2][1].known /\ stack[3][1].known

====
